---- MODULE Spec2Model ----
(***************************************************************************)
(* The gallery page (src/pages/index.tsx), the admin page                  *)
(* (src/pages/admin.tsx) and the `images` table they share.                *)
(*                                                                         *)
(* The page is a React function component: every handler is a closure over *)
(* the state of the render that created it.  A handler that awaits keeps   *)
(* the values of that render after the await, so each call in flight       *)
(* carries the values it captured.  A timestamp is a positive number and 0 *)
(* stands for null.                                                        *)
(***************************************************************************)
EXTENDS Integers, Sequences, FiniteSets

\* ---------------------------------------------------------------- bounds
PageSize == 5
MaxStored == 7
MaxCalls == 4
MaxHidden == 1
MaxTies == 1
MaxFetches == 2
MaxEntries == 2
MaxInitial == 2
MaxRates == 2
MaxRateCalls == 3
MaxStars == 2
MaxToggles == 2
MaxOtherVotes == 1
MaxRows == 3
MaxToggleCalls == 2

VARIABLES
  db,             \* the images table: db[id] is the row of entry id
  images,         \* useState images: the in-memory feed
  loading,        \* useState loading
  hasMore,        \* useState hasMore
  lastFetchedAt,  \* useState lastFetchedAt (0 = null)
  error,          \* useState error ("none" = null)
  mounted,        \* the mount effect has run
  refCb,          \* the memoized lastImageElementRef: the values it closes over
  observer,       \* observer.current: what it observes, what its callback closes over,
                  \* whether the notification that observe() queues is still to come
  fetches,        \* fetchImages calls in flight
  showForm,       \* useState showForm
  formData,       \* useState formData: which fields are non-empty
  file,           \* useState file: a file is attached
  loadingSubmit,  \* useState loadingSubmit
  submit,         \* the handleSubmit call in flight
  userVotes,      \* useState userVotes: the ids marked true
  localVotes,     \* localStorage 'userVotes': the ids marked true
  rates,          \* handleRate calls in flight
  other,          \* another browser: the row its feed holds (id 0 = none), its votes so far
  adminImages,    \* admin page, useState images: the hidden flag shown per loaded id
  adminError,     \* admin page, useState error
  toggles,        \* handleToggleHidden calls in flight
  toggleCalls,    \* history: the handleToggleHidden calls made
  nCalls,         \* history: fetchImages calls since the cursor was last reset (capped)
  newest,         \* history: the entry the last successful handleSubmit inserted
  hiddenAtReset,  \* history: the entries hidden ever since the cursor was last reset
  sent,           \* history: per entry, the counter updates of this browser the backend applied
  rateCalls,      \* history: per entry, the handleRate calls made 
  overlapped      \* history: the entries that had two handleRate calls in flight at once

feedVars == <<images, loading, hasMore, lastFetchedAt, refCb, observer, fetches>>
formVars == <<showForm, formData, file, loadingSubmit, submit>>

voteVars == <<userVotes, localVotes, rates, sent, rateCalls, overlapped>>
adminVars == <<adminImages, adminError, toggles, toggleCalls>>

vars == <<db, images, loading, hasMore, lastFetchedAt, error, mounted, refCb,
          observer, fetches, showForm, formData, file, loadingSubmit, submit,
          userVotes, localVotes, rates, other, adminImages, adminError, toggles,
          toggleCalls,
          nCalls, newest, hiddenAtReset, sent, rateCalls, overlapped>>

\* ---------------------------------------------------------------- helpers
Min(a, b) == IF a < b THEN a ELSE b

Range(s) == {s[i] : i \in 1..Len(s)}

RemoveAt(s, i) == [j \in 1..(Len(s) - 1) |-> IF j < i THEN s[j] ELSE s[j + 1]]

Ids == 1..Len(db)

Hidden(t) == {i \in 1..Len(t) : t[i].hidden}

\* A row as the client receives it (select '*'); the gallery reads these fields.
Row(id) == [id |-> id, created_at |-> db[id].created_at,
            stars |-> db[id].stars, num_votes |-> db[id].num_votes]

\* ---------------------------------------------------------------- backend
\* A variant whose query leaves out .eq('hidden', false).
EligibleWithHidden(cursor) ==
  {id \in Ids : cursor = 0 \/ db[id].created_at < cursor}

\* .eq('hidden', false) and, when a cursor is given, .lt('created_at', cursor)
Eligible(cursor) ==
  {id \in Ids : ~db[id].hidden /\ (cursor = 0 \/ db[id].created_at < cursor)}

\* .order('created_at', descending).limit(k): rows of equal created_at come in
\* an order the query does not fix.
RECURSIVE Ordered(_, _)
Ordered(S, k) ==
  IF k = 0 \/ S = {} THEN {<<>>}
  ELSE LET top == {id \in S : \A o \in S : db[o].created_at <= db[id].created_at}
       IN UNION {{<<Row(id)>> \o rest : rest \in Ordered(S \ {id}, k - 1)} : id \in top}

Query(cursor) == Ordered(Eligible(cursor), PageSize)

\* ---------------------------------------------------------------- rendering
NoObserver == [observing |-> FALSE, node |-> 0, hasMore |-> TRUE, lastFetchedAt |-> 0,
               initial |-> FALSE]

\* The element that carries the ref: the last rendered entry (0 = none).
LastNode(imgs) == IF imgs = <<>> THEN 0 ELSE imgs[Len(imgs)].id

\* useCallback(..., [loading, hasMore]): a new callback only when one of the
\* two changed; it closes over the fetchImages of the render that made it.
LastImageElementRef(old, ld, hm, lfa) ==
  IF old.loading = ld /\ old.hasMore = hm THEN old
  ELSE [loading |-> ld, hasMore |-> hm, lastFetchedAt |-> lfa]

\* A variant whose callback builds the new observer without disconnecting
\* the one before.
CommitKeepsObserver(oldImgs, oldRef, oldObs, newImgs, ld, hm, lfa) ==
  LET newRef == LastImageElementRef(oldRef, ld, hm, lfa)
      oldNode == LastNode(oldImgs)
      newNode == LastNode(newImgs)
      changed == newRef # oldRef \/ oldNode # newNode
      attached == IF changed /\ newNode # 0 /\ ~newRef.loading /\ ~oldObs.observing
                  THEN [observing |-> TRUE, node |-> newNode,
                        hasMore |-> newRef.hasMore,
                        lastFetchedAt |-> newRef.lastFetchedAt,
                        initial |-> TRUE]
                  ELSE oldObs
  IN [refCb |-> newRef, observer |-> attached]

\* One commit of a render: React calls the previous ref callback with null and
\* the new one with the node whenever the callback or the last element changed.
Commit(oldImgs, oldRef, oldObs, newImgs, ld, hm, lfa) ==
  LET newRef == LastImageElementRef(oldRef, ld, hm, lfa)
      oldNode == LastNode(oldImgs)
      newNode == LastNode(newImgs)
      changed == newRef # oldRef \/ oldNode # newNode
      detached == IF changed /\ oldNode # 0 /\ ~oldRef.loading
                  THEN NoObserver ELSE oldObs
      attached == IF changed /\ newNode # 0 /\ ~newRef.loading
                  THEN [observing |-> TRUE, node |-> newNode,
                        hasMore |-> newRef.hasMore,
                        lastFetchedAt |-> newRef.lastFetchedAt,
                        initial |-> TRUE]
                  ELSE detached
  IN [refCb |-> newRef, observer |-> attached]

\* A handler of the page runs to completion: between a flushSync and the end
\* of the handler nothing else runs.
InSync == \E i \in 1..Len(fetches) : fetches[i].phase = "flushed"

EmptyForm == [title |-> FALSE, description |-> FALSE, artist |-> FALSE,
              artistName |-> FALSE, youtubeLink |-> FALSE]

NoSubmit == [pc |-> "idle", hasMore |-> TRUE, loading |-> FALSE, lastFetchedAt |-> 0,
             file |-> FALSE, youtubeLink |-> FALSE]

\* ---------------------------------------------------------------- fetchImages
\* The synchronous part of fetchImages, called with the values c it closes
\* over while the page shows imgs, ref, obs, ld, hm, lfa and has the calls fs
\* in flight: it returns at once, or sets loading and sends the page query.
Sends(c) == c.hasMore /\ ~c.loading

FetchImages(c, imgs, ref, obs, ld, hm, lfa, fs, awaited) ==
  IF ~c.hasMore \/ c.loading
  THEN [loading |-> ld, refCb |-> ref, observer |-> obs, fetches |-> fs]
  ELSE LET r == Commit(imgs, ref, obs, imgs, TRUE, hm, lfa)
       IN [loading |-> TRUE, refCb |-> r.refCb, observer |-> r.observer,
           fetches |-> Append(fs, [cursor |-> c.lastFetchedAt, phase |-> "sent",
                                   data |-> <<>>, awaited |-> awaited,
                                   fresh |-> TRUE])]

\* History: one more fetchImages call since the feed was last empty by reset.
CountCall == nCalls' = Min(nCalls + 1, MaxCalls)

\* useEffect(() => { fetchImages(); setUserVotes(JSON.parse(localStorage...)) }, [])
Mount ==
  /\ ~mounted
  /\ mounted' = TRUE
  /\ LET r == FetchImages([hasMore |-> hasMore, loading |-> loading,
                           lastFetchedAt |-> lastFetchedAt],
                          images, refCb, observer, loading, hasMore, lastFetchedAt,
                          fetches, FALSE)
     IN /\ loading' = r.loading
        /\ refCb' = r.refCb
        /\ observer' = r.observer
        /\ fetches' = r.fetches
  /\ userVotes' = localVotes
  /\ CountCall
  /\ hiddenAtReset' = Hidden(db)
  /\ UNCHANGED <<db, images, hasMore, lastFetchedAt, error, formVars, newest,
                 localVotes, rates, sent, rateCalls, overlapped, other, adminVars>>

\* The IntersectionObserver callback, the observed element intersecting:
\* if (entries[0].isIntersecting && hasMore) fetchImages()
ObserverFires ==
  /\ observer.observing
  /\ ~InSync
  /\ Len(fetches) < MaxFetches
  /\ nCalls < MaxCalls
  /\ CountCall
  /\ LET c == [hasMore |-> observer.hasMore, loading |-> FALSE,
               lastFetchedAt |-> observer.lastFetchedAt]
         r == IF observer.hasMore
              THEN FetchImages(c, images, refCb, observer, loading, hasMore,
                               lastFetchedAt, fetches, FALSE)
              ELSE [loading |-> loading, refCb |-> refCb, observer |-> observer,
                    fetches |-> fetches]
     IN /\ loading' = r.loading
        /\ refCb' = r.refCb
        /\ observer' = r.observer
        /\ fetches' = r.fetches
  /\ UNCHANGED <<db, images, hasMore, lastFetchedAt, error, mounted, formVars, newest,
                 voteVars, other, adminVars, hiddenAtReset>>

\* observe(node) queues a first notification whatever the user does: the
\* callback runs with isIntersecting telling whether the node is in view.
ObserverNotifies(isIntersecting) ==
  /\ observer.observing
  /\ observer.initial
  /\ ~InSync
  /\ IF isIntersecting /\ observer.hasMore
     THEN /\ Len(fetches) < MaxFetches
          /\ nCalls < MaxCalls
          /\ CountCall
          /\ LET c == [hasMore |-> observer.hasMore, loading |-> FALSE,
                       lastFetchedAt |-> observer.lastFetchedAt]
                 r == FetchImages(c, images, refCb, observer, loading, hasMore,
                                  lastFetchedAt, fetches, FALSE)
             IN /\ loading' = r.loading
                /\ refCb' = r.refCb
                /\ observer' = r.observer
                /\ fetches' = r.fetches
     ELSE /\ observer' = [observer EXCEPT !.initial = FALSE]
          /\ UNCHANGED <<loading, refCb, fetches, nCalls>>
  /\ UNCHANGED <<db, images, hasMore, lastFetchedAt, error, mounted, formVars, newest,
                 voteVars, other, adminVars, hiddenAtReset>>

\* A later notification: the visitor scrolls the observed entry into view.
ObserverScrolled == ~observer.initial /\ ObserverFires

\* The backend answers a page query.
QueryOk(i) ==
  /\ fetches[i].phase = "sent"
  /\ \E page \in Query(fetches[i].cursor) :
       fetches' = [fetches EXCEPT ![i].phase = "ok", ![i].data = page]
  /\ UNCHANGED <<db, images, loading, hasMore, lastFetchedAt, error, mounted,
                 refCb, observer, formVars, newest, nCalls,
                 voteVars, other, adminVars, hiddenAtReset>>

\* The page query fails.
QueryFails(i) ==
  /\ fetches[i].phase = "sent"
  /\ fetches' = [fetches EXCEPT ![i].phase = "err"]
  /\ UNCHANGED <<db, images, loading, hasMore, lastFetchedAt, error, mounted,
                 refCb, observer, formVars, newest, nCalls,
                 voteVars, other, adminVars, hiddenAtReset>>

\* handleSubmit awaits the fetchImages call it made: when that call ends,
\* its finally block runs.
AwaitEnds(i) ==
  IF fetches[i].awaited
  THEN loadingSubmit' = FALSE /\ submit' = NoSubmit
  ELSE UNCHANGED <<loadingSubmit, submit>>

\* The answer arrives: an empty page.
FetchEmpty(i) ==
  /\ ~InSync
  /\ fetches[i].phase = "ok"
  /\ fetches[i].data = <<>>
  /\ LET r == Commit(images, refCb, observer, images, FALSE, FALSE, lastFetchedAt)
     IN /\ hasMore' = FALSE
        /\ loading' = FALSE
        /\ refCb' = r.refCb
        /\ observer' = r.observer
  /\ fetches' = RemoveAt(fetches, i)
  /\ AwaitEnds(i)
  /\ UNCHANGED <<db, images, lastFetchedAt, error, mounted, showForm, formData,
                 file, newest, nCalls,
                 voteVars, other, adminVars, hiddenAtReset>>

\* The answer arrives: a page.  flushSync renders the appended feed first.
FetchAppend(i) ==
  /\ ~InSync
  /\ fetches[i].phase = "ok"
  /\ fetches[i].data # <<>>
  /\ images' = images \o fetches[i].data
  /\ LET r == Commit(images, refCb, observer, images', loading, hasMore, lastFetchedAt)
     IN /\ refCb' = r.refCb
        /\ observer' = r.observer
  /\ fetches' = [fetches EXCEPT ![i].phase = "flushed"]
  /\ UNCHANGED <<db, loading, hasMore, lastFetchedAt, error, mounted, formVars, newest, nCalls,
                 voteVars, other, adminVars, hiddenAtReset>>

\* A variant that takes a page shorter than PageSize for the last one.
FetchAdvanceShortEnds(i) ==
  /\ fetches[i].phase = "flushed"
  /\ LET d == fetches[i].data
         lfa == d[Len(d)].created_at
         hm == hasMore /\ Len(d) = PageSize
         r == Commit(images, refCb, observer, images, FALSE, hm, lfa)
     IN /\ lastFetchedAt' = lfa
        /\ loading' = FALSE
        /\ hasMore' = hm
        /\ refCb' = r.refCb
        /\ observer' = r.observer
  /\ fetches' = RemoveAt(fetches, i)
  /\ AwaitEnds(i)
  /\ UNCHANGED <<db, images, error, mounted, showForm, formData, file, newest, nCalls,
                 voteVars, other, adminVars, hiddenAtReset>>

\* ... then setLastFetchedAt and, in finally, setLoading(false).
FetchAdvance(i) ==
  /\ fetches[i].phase = "flushed"
  /\ LET d == fetches[i].data
         lfa == d[Len(d)].created_at
         r == Commit(images, refCb, observer, images, FALSE, hasMore, lfa)
     IN /\ lastFetchedAt' = lfa
        /\ loading' = FALSE
        /\ refCb' = r.refCb
        /\ observer' = r.observer
  /\ fetches' = RemoveAt(fetches, i)
  /\ AwaitEnds(i)
  /\ UNCHANGED <<db, images, hasMore, error, mounted, showForm, formData, file, newest, nCalls,
                 voteVars, other, adminVars, hiddenAtReset>>

\* A variant whose catch also gives the cursor up.
FetchFailsExhausts(i) ==
  /\ ~InSync
  /\ fetches[i].phase = "err"
  /\ error' = "fetch"
  /\ LET r == Commit(images, refCb, observer, images, FALSE, FALSE, lastFetchedAt)
     IN /\ loading' = FALSE
        /\ hasMore' = FALSE
        /\ refCb' = r.refCb
        /\ observer' = r.observer
  /\ fetches' = RemoveAt(fetches, i)
  /\ AwaitEnds(i)
  /\ UNCHANGED <<db, images, lastFetchedAt, mounted, showForm, formData,
                 file, newest, nCalls,
                 voteVars, other, adminVars, hiddenAtReset>>

\* The error arrives: catch sets the message, finally clears loading.
FetchFails(i) ==
  /\ ~InSync
  /\ fetches[i].phase = "err"
  /\ error' = "fetch"
  /\ LET r == Commit(images, refCb, observer, images, FALSE, hasMore, lastFetchedAt)
     IN /\ loading' = FALSE
        /\ refCb' = r.refCb
        /\ observer' = r.observer
  /\ fetches' = RemoveAt(fetches, i)
  /\ AwaitEnds(i)
  /\ UNCHANGED <<db, images, hasMore, lastFetchedAt, mounted, showForm, formData,
                 file, newest, nCalls,
                 voteVars, other, adminVars, hiddenAtReset>>

\* ---------------------------------------------------------------- the form
\* onClick={() => setShowForm(true)} and onClick={() => setShowForm(false)}
SetShowForm(b) ==
  /\ mounted
  /\ ~InSync
  /\ showForm # b
  /\ showForm' = b
  /\ UNCHANGED <<db, feedVars, error, mounted, formData, file, loadingSubmit, submit, newest, nCalls,
                 voteVars, other, adminVars, hiddenAtReset>>

\* The two change handlers as functions of the state.  The markup disables
\* the file input while youtubeLink is non-empty and the link input while a
\* file is chosen (lines 238, 246); neither handler tests that itself.
\* setFormData({ ...formData, [e.target.name]: e.target.value })
HandleInputChange(name, nonEmpty) ==
  /\ mounted
  /\ ~InSync
  /\ showForm
  /\ formData[name] # nonEmpty
  /\ formData' = [formData EXCEPT ![name] = nonEmpty]
  /\ UNCHANGED <<db, feedVars, error, mounted, showForm, file, loadingSubmit, submit, newest, nCalls,
                 voteVars, other, adminVars, hiddenAtReset>>

\* onChange={(e) => setFile(e.target.files?.[0] || null)}
SetFile(f) ==
  /\ mounted
  /\ ~InSync
  /\ showForm
  /\ file # f
  /\ file' = f
  /\ UNCHANGED <<db, feedVars, error, mounted, showForm, formData, loadingSubmit, submit, newest, nCalls,
                 voteVars, other, adminVars, hiddenAtReset>>

\* The visitor opens the form and fills every text field, with a file or
\* with a video link: the handlers above, one after another.
FillDraft(withFile) ==
  /\ mounted
  /\ ~InSync
  /\ submit.pc = "idle"
  /\ showForm' = TRUE
  /\ formData' = [title |-> TRUE, description |-> TRUE, artist |-> TRUE,
                  artistName |-> TRUE, youtubeLink |-> ~withFile]
  /\ file' = withFile
  /\ <<showForm', formData', file'>> # <<showForm, formData, file>>
  /\ UNCHANGED <<db, feedVars, error, mounted, loadingSubmit, submit, newest, nCalls,
                 voteVars, other, adminVars, hiddenAtReset>>

\* ---------------------------------------------------------------- handleSubmit
\* A variant that validates the asset only.
RejectedAssetOnly(fd, f) == ~f /\ ~fd.youtubeLink

\* The validation of line 84: TRUE when the draft is rejected.
Rejected(fd, f) ==
  (~f /\ ~fd.youtubeLink) \/ ~fd.title \/ ~fd.description \/ ~fd.artist \/ ~fd.artistName

\* handleSubmit up to its first await: validation, then the upload of the
\* file or, without a file, the insert.
SubmitStart ==
  /\ mounted
  /\ ~InSync
  /\ showForm
  /\ submit.pc = "idle"
  /\ IF Rejected(formData, file)
     THEN /\ error' = "validation"
          /\ loadingSubmit' = FALSE
          /\ submit' = submit
     ELSE /\ error' = "none"
          /\ loadingSubmit' = TRUE
          /\ submit' = [pc |-> IF file THEN "upload" ELSE "insert",
                        hasMore |-> hasMore, loading |-> loading,
                        lastFetchedAt |-> lastFetchedAt,
                        file |-> file, youtubeLink |-> formData.youtubeLink]
  /\ UNCHANGED <<db, feedVars, mounted, showForm, formData, file, newest, nCalls,
                 voteVars, other, adminVars, hiddenAtReset>>

\* The upload succeeded: the insert is sent.
UploadOk ==
  /\ ~InSync
  /\ submit.pc = "upload"
  /\ submit' = [submit EXCEPT !.pc = "insert"]
  /\ UNCHANGED <<db, feedVars, error, mounted, showForm, formData, file,
                 loadingSubmit, newest, nCalls,
                 voteVars, other, adminVars, hiddenAtReset>>

\* A variant whose catch clears the draft and closes the form.
SubmitCaughtClears ==
  /\ error' = "submit"
  /\ loadingSubmit' = FALSE
  /\ submit' = NoSubmit
  /\ formData' = EmptyForm
  /\ file' = FALSE
  /\ showForm' = FALSE
  /\ UNCHANGED <<db, feedVars, mounted, newest, nCalls,
                 voteVars, other, adminVars, hiddenAtReset>>

\* catch and finally of handleSubmit.
SubmitCaught ==
  /\ error' = "submit"
  /\ loadingSubmit' = FALSE
  /\ submit' = NoSubmit
  /\ UNCHANGED <<db, feedVars, mounted, showForm, formData, file, newest, nCalls,
                 voteVars, other, adminVars, hiddenAtReset>>

\* The upload failed.
UploadFails ==
  /\ ~InSync
  /\ submit.pc = "upload"
  /\ SubmitCaught

\* The backend inserts the row: stars 0, num_votes 0, hidden false, and a
\* created_at not before that of any row it holds.
Inserted ==
  {Append(db, [created_at |-> ts, hidden |-> FALSE, stars |-> 0, num_votes |-> 0]) :
     ts \in (IF db = <<>> THEN {1}
             ELSE {db[Len(db)].created_at, db[Len(db)].created_at + 1})}

InsertOk ==
  /\ submit.pc = "insert"
  /\ Len(db) < MaxRows
  /\ db' \in Inserted
  /\ submit' = [submit EXCEPT !.pc = "inserted"]
  /\ newest' = Len(db) + 1
  /\ UNCHANGED <<feedVars, error, mounted, showForm, formData, file, loadingSubmit, nCalls,
                 voteVars, other, adminVars, hiddenAtReset>>

\* The backend refuses the insert.
InsertFails ==
  /\ submit.pc = "insert"
  /\ submit' = [submit EXCEPT !.pc = "failed"]
  /\ UNCHANGED <<db, feedVars, error, mounted, showForm, formData, file,
                 loadingSubmit, newest, nCalls,
                 voteVars, other, adminVars, hiddenAtReset>>

\* The insert error arrives.
SubmitFails ==
  /\ ~InSync
  /\ submit.pc = "failed"
  /\ SubmitCaught

\* History: the calls in flight were made before the cursor was reset.
Stale(fs) == [i \in 1..Len(fs) |-> [fs[i] EXCEPT !.fresh = FALSE]]

\* The insert succeeded: the draft is cleared, the form closed, flushSync
\* renders the emptied feed with the cursor reset, and handleSubmit calls the
\* fetchImages of the render it was started in.
SubmitSucceeds ==
  /\ ~InSync
  /\ submit.pc = "inserted"
  /\ LET c == [hasMore |-> submit.hasMore, loading |-> submit.loading,
               lastFetchedAt |-> submit.lastFetchedAt]
         reset == Commit(images, refCb, observer, <<>>, loading, TRUE, 0)
         r == FetchImages(c, <<>>, reset.refCb, reset.observer, loading, TRUE, 0,
                          Stale(fetches), TRUE)
     IN /\ Sends(c) => Len(fetches) < MaxFetches
        /\ images' = <<>>
        /\ lastFetchedAt' = 0
        /\ hasMore' = TRUE
        /\ loading' = r.loading
        /\ refCb' = r.refCb
        /\ observer' = r.observer
        /\ fetches' = r.fetches
        /\ IF Sends(c)
           THEN submit' = [submit EXCEPT !.pc = "fetch"] /\ UNCHANGED loadingSubmit
           ELSE submit' = NoSubmit /\ loadingSubmit' = FALSE
  /\ formData' = EmptyForm
  /\ file' = FALSE
  /\ showForm' = FALSE
  /\ nCalls' = IF Sends([hasMore |-> submit.hasMore, loading |-> submit.loading]) THEN 1 ELSE 0
  /\ hiddenAtReset' = Hidden(db)
  /\ UNCHANGED <<db, error, mounted, newest, voteVars, other, adminVars>>

\* ---------------------------------------------------------------- handleRate
FeedIds == {images[i].id : i \in 1..Len(images)}

\* images.find(img => img.id === id): the first element of that id.
Find(id) == images[CHOOSE i \in 1..Len(images) :
                     images[i].id = id /\ \A j \in 1..(i - 1) : images[j].id # id]

\* A variant that adds the star without counting the vote.
RateUpdateStarOnly(image) == [stars |-> image.stars + 1, num_votes |-> image.num_votes]

\* What the update of line 129 writes, from the element found in the feed.
RateUpdate(image) == [stars |-> image.stars + 1, num_votes |-> image.num_votes + 1]

\* prev.map(img => img.id === id ? {...img, stars + 1, num_votes + 1} : img)
Rated(imgs, id) ==
  [i \in 1..Len(imgs) |->
     IF imgs[i].id = id
     THEN [imgs[i] EXCEPT !.stars = @ + 1, !.num_votes = @ + 1]
     ELSE imgs[i]]

Bump(f, id, cap) == [f EXCEPT ![id] = Min(@ + 1, cap)]

\* The number of handleRate calls made so far.
RECURSIVE CallsUpTo(_)
CallsUpTo(n) == IF n = 0 THEN 0 ELSE rateCalls[n] + CallsUpTo(n - 1)

\* The star button of entry id is clicked: handleRate up to its await.
HandleRate(id) ==
  /\ mounted
  /\ ~InSync
  /\ id \in FeedIds
  /\ CallsUpTo(MaxEntries) < MaxRateCalls
  /\ rateCalls' = Bump(rateCalls, id, MaxRateCalls)
  /\ IF id \in userVotes
     THEN UNCHANGED <<rates, overlapped>>
     ELSE /\ Len(rates) < MaxRates
          /\ Find(id).stars < MaxStars
          /\ rates' = Append(rates, [id |-> id, update |-> RateUpdate(Find(id)),
                                     userVotes |-> userVotes, phase |-> "sent"])
          /\ overlapped' = IF \E i \in 1..Len(rates) : rates[i].id = id
                           THEN overlapped \cup {id} ELSE overlapped
  /\ UNCHANGED <<db, feedVars, error, mounted, formVars, userVotes, localVotes, sent,
                 other, adminVars, nCalls, newest, hiddenAtReset>>

\* The backend applies the counter update to the row.
RateApplied(i) ==
  /\ rates[i].phase = "sent"
  /\ db' = [db EXCEPT ![rates[i].id].stars = rates[i].update.stars,
                      ![rates[i].id].num_votes = rates[i].update.num_votes]
  /\ rates' = [rates EXCEPT ![i].phase = "ok"]
  /\ sent' = Bump(sent, rates[i].id, MaxRateCalls)
  /\ UNCHANGED <<feedVars, error, mounted, formVars, userVotes, localVotes, rateCalls,
                 overlapped, other, adminVars, nCalls, newest, hiddenAtReset>>

\* The backend refuses the counter update.
RateRefused(i) ==
  /\ rates[i].phase = "sent"
  /\ rates' = [rates EXCEPT ![i].phase = "err"]
  /\ UNCHANGED <<db, feedVars, error, mounted, formVars, userVotes, localVotes, sent,
                 rateCalls, overlapped, other, adminVars, nCalls, newest, hiddenAtReset>>

\* A variant that shows the new counts and leaves the ledger unwritten.
RateSucceedsUnmarked(i) ==
  /\ ~InSync
  /\ rates[i].phase = "ok"
  /\ images' = Rated(images, rates[i].id)
  /\ rates' = RemoveAt(rates, i)
  /\ UNCHANGED <<db, loading, hasMore, lastFetchedAt, refCb, observer, fetches, error,
                 mounted, formVars, userVotes, localVotes, sent, rateCalls, overlapped,
                 other, adminVars, nCalls, newest, hiddenAtReset>>

\* The update succeeded: the feed shows the new counts, the ledger is
\* written from the userVotes of the render the call was started in.
RateSucceeds(i) ==
  /\ ~InSync
  /\ rates[i].phase = "ok"
  /\ images' = Rated(images, rates[i].id)
  /\ userVotes' = rates[i].userVotes \cup {rates[i].id}
  /\ localVotes' = rates[i].userVotes \cup {rates[i].id}
  /\ rates' = RemoveAt(rates, i)
  /\ UNCHANGED <<db, loading, hasMore, lastFetchedAt, refCb, observer, fetches, error,
                 mounted, formVars, sent, rateCalls, overlapped, other, adminVars,
                 nCalls, newest, hiddenAtReset>>

\* A variant whose catch marks the entry voted all the same.
RateFailsMarked(i) ==
  /\ ~InSync
  /\ rates[i].phase = "err"
  /\ error' = "rate"
  /\ userVotes' = rates[i].userVotes \cup {rates[i].id}
  /\ localVotes' = rates[i].userVotes \cup {rates[i].id}
  /\ rates' = RemoveAt(rates, i)
  /\ UNCHANGED <<db, feedVars, mounted, formVars, sent,
                 rateCalls, overlapped, other, adminVars, nCalls, newest, hiddenAtReset>>

\* The update failed: catch sets the message.
RateFails(i) ==
  /\ ~InSync
  /\ rates[i].phase = "err"
  /\ error' = "rate"
  /\ rates' = RemoveAt(rates, i)
  /\ UNCHANGED <<db, feedVars, mounted, formVars, userVotes, localVotes, sent,
                 rateCalls, overlapped, other, adminVars, nCalls, newest, hiddenAtReset>>

\* handleRate called when no other handleRate call is in flight.
RateInTurn(id) == rates = <<>> /\ HandleRate(id)

\* Another browser loads the row of a visible entry into its feed ...
NoRow == [id |-> 0, created_at |-> 0, stars |-> 0, num_votes |-> 0]

OtherLoads(id) ==
  /\ ~db[id].hidden
  /\ other.votes < MaxOtherVotes
  /\ other.copy # Row(id)
  /\ other' = [other EXCEPT !.copy = Row(id)]
  /\ UNCHANGED <<db, feedVars, error, mounted, formVars, voteVars, adminVars,
                 nCalls, newest, hiddenAtReset>>

\* ... and its handleRate writes the counters from that copy.
OtherRates ==
  /\ other.copy.id # 0
  /\ other.copy.stars < MaxStars
  /\ db' = [db EXCEPT ![other.copy.id].stars = RateUpdate(other.copy).stars,
                      ![other.copy.id].num_votes = RateUpdate(other.copy).num_votes]
  /\ other' = [copy |-> NoRow, votes |-> other.votes + 1]
  /\ UNCHANGED <<feedVars, error, mounted, formVars, voteVars, adminVars,
                 nCalls, newest, hiddenAtReset>>

\* Another browser's handleSubmit inserts a row.
OtherSubmits ==
  /\ Len(db) < MaxEntries
  /\ db' \in Inserted
  /\ UNCHANGED <<feedVars, error, mounted, formVars, voteVars, other, adminVars,
                 nCalls, newest, hiddenAtReset>>

\* ---------------------------------------------------------------- admin page
\* fetchImages of the admin page: every row, hidden or not.
AdminFetchImages ==
  /\ adminImages = <<>>
  /\ Ids # {}
  /\ adminImages' = [id \in Ids |-> db[id].hidden]
  /\ UNCHANGED <<db, feedVars, error, mounted, formVars, voteVars, other, adminError,
                 toggles, toggleCalls, nCalls, newest, hiddenAtReset>>

\* The switch of entry id is flipped: handleToggleHidden(image.id, image.hidden)
\* up to its await.
HandleToggleHidden(id) ==
  /\ id \in DOMAIN adminImages
  /\ Len(toggles) < MaxToggles
  /\ toggleCalls < MaxToggleCalls
  /\ toggleCalls' = toggleCalls + 1
  /\ toggles' = Append(toggles, [id |-> id, currentHiddenState |-> adminImages[id],
                                 images |-> adminImages, phase |-> "sent"])
  /\ UNCHANGED <<db, feedVars, error, mounted, formVars, voteVars, other, adminImages,
                 adminError, nCalls, newest, hiddenAtReset>>

\* A variant whose update leaves out .eq('id', id).
UpdateHiddenEveryRow(id, currentHiddenState) ==
  /\ db' = [k \in 1..Len(db) |-> [db[k] EXCEPT !.hidden = ~currentHiddenState]]
  /\ hiddenAtReset' = IF currentHiddenState THEN hiddenAtReset \ {id} ELSE hiddenAtReset

\* update({ hidden: !currentHiddenState }).eq('id', id) at the backend.
UpdateHidden(id, currentHiddenState) ==
  /\ db' = [db EXCEPT ![id].hidden = ~currentHiddenState]
  /\ hiddenAtReset' = IF currentHiddenState THEN hiddenAtReset \ {id} ELSE hiddenAtReset

\* The backend applies the update of a handleToggleHidden call.
ToggleApplied(i) ==
  /\ toggles[i].phase = "sent"
  /\ UpdateHidden(toggles[i].id, toggles[i].currentHiddenState)
  /\ toggles' = [toggles EXCEPT ![i].phase = "ok"]
  /\ UNCHANGED <<feedVars, error, mounted, formVars, voteVars, other, adminImages,
                 adminError, toggleCalls, nCalls, newest>>

\* handleToggleHidden(id, currentHiddenState) as the table sees it: the admin
\* page sends the update, the backend applies it.
SetHidden(id, currentHiddenState) ==
  /\ db[id].hidden = currentHiddenState
  /\ ~currentHiddenState => Cardinality(Hidden(db)) < MaxHidden
  /\ UpdateHidden(id, currentHiddenState)
  /\ UNCHANGED <<feedVars, error, mounted, formVars, voteVars, other, adminVars,
                 nCalls, newest>>

\* The backend refuses the update.
ToggleRefused(i) ==
  /\ toggles[i].phase = "sent"
  /\ toggles' = [toggles EXCEPT ![i].phase = "err"]
  /\ UNCHANGED <<db, feedVars, error, mounted, formVars, voteVars, other, adminImages,
                 adminError, toggleCalls, nCalls, newest, hiddenAtReset>>

\* The answer arrives: the list of the render the call was started in, with
\* the flag of id flipped, or the error message.
ToggleResolves(i) ==
  /\ toggles[i].phase \in {"ok", "err"}
  /\ IF toggles[i].phase = "ok"
     THEN /\ adminImages' = [toggles[i].images EXCEPT
                               ![toggles[i].id] = ~toggles[i].currentHiddenState]
          /\ UNCHANGED adminError
     ELSE /\ adminError' = TRUE
          /\ UNCHANGED adminImages
  /\ toggles' = RemoveAt(toggles, i)
  /\ UNCHANGED <<db, feedVars, error, mounted, formVars, voteVars, other, toggleCalls,
                 nCalls, newest, hiddenAtReset>>

\* ---------------------------------------------------------------- initial states
FreshPage ==
  /\ images = <<>>
  /\ loading = FALSE
  /\ hasMore = TRUE
  /\ lastFetchedAt = 0
  /\ error = "none"
  /\ mounted = FALSE
  /\ refCb = [loading |-> FALSE, hasMore |-> TRUE, lastFetchedAt |-> 0]
  /\ observer = NoObserver
  /\ fetches = <<>>
  /\ showForm = FALSE
  /\ formData = EmptyForm
  /\ file = FALSE
  /\ loadingSubmit = FALSE
  /\ submit = NoSubmit
  /\ userVotes = {}
  /\ localVotes = {}
  /\ rates = <<>>
  /\ other = [copy |-> NoRow, votes |-> 0]
  /\ adminImages = <<>>
  /\ adminError = FALSE
  /\ toggles = <<>>
  /\ toggleCalls = 0
  /\ nCalls = 0
  /\ newest = 0
  /\ hiddenAtReset = {}
  /\ sent = [id \in 1..MaxEntries |-> 0]
  /\ rateCalls = [id \in 1..MaxEntries |-> 0]
  /\ overlapped = {}

Ties(t) == {i \in 2..Len(t) : t[i].created_at = t[i - 1].created_at}

\* Tables of n rows inserted one after another: created_at never decreases
\* with the id, at most MaxTies rows share it with the row before, at most
\* MaxHidden rows are hidden, every counter is at 0.
RECURSIVE Tables(_)
Tables(n) ==
  IF n = 0 THEN {<<>>}
  ELSE UNION {{u \in {Append(t, [created_at |-> ts, hidden |-> h, stars |-> 0,
                                  num_votes |-> 0]) :
                        ts \in (IF n = 1 THEN {1}
                                ELSE {t[n - 1].created_at, t[n - 1].created_at + 1}),
                        h \in BOOLEAN} :
                 Cardinality(Hidden(u)) <= MaxHidden /\ Cardinality(Ties(u)) <= MaxTies} :
              t \in Tables(n - 1)}

InitPaging ==
  /\ db \in UNION {Tables(n) : n \in 0..MaxStored}
  /\ FreshPage

\* fetchImages called again and again, each call after the one before has ended.
NextPaging ==
  \/ Mount
  \/ ObserverFires
  \/ \E i \in 1..Len(fetches) : QueryOk(i)
  \/ \E i \in 1..Len(fetches) : FetchEmpty(i)
  \/ \E i \in 1..Len(fetches) : FetchAppend(i)
  \/ \E i \in 1..Len(fetches) : FetchAdvance(i)

SpecPaging == InitPaging /\ [][NextPaging]_vars

\* ---------------------------------------------------------------- the page
\* The table holds a few rows, all visible: a row is hidden only by the admin.
Init ==
  /\ db \in {t \in UNION {Tables(n) : n \in 0..MaxInitial} : Hidden(t) = {}}
  /\ FreshPage

\* The gallery page with its form: scrolling, page queries, submissions.
NextFeed ==
  \/ Mount
  \/ ObserverFires
  \/ \E i \in 1..Len(fetches) : QueryOk(i)
  \/ \E i \in 1..Len(fetches) : QueryFails(i)
  \/ \E i \in 1..Len(fetches) : FetchEmpty(i)
  \/ \E i \in 1..Len(fetches) : FetchAppend(i)
  \/ \E i \in 1..Len(fetches) : FetchAdvance(i)
  \/ \E i \in 1..Len(fetches) : FetchFails(i)
  \/ \E withFile \in BOOLEAN : FillDraft(withFile)
  \/ SubmitStart
  \/ UploadOk
  \/ InsertOk
  \/ SubmitSucceeds

SpecFeed == Init /\ [][NextFeed]_vars

\* The gallery page while the admin hides and shows entries.
NextModeration ==
  \/ Mount
  \/ ObserverFires
  \/ \E i \in 1..Len(fetches) : QueryOk(i)
  \/ \E i \in 1..Len(fetches) : FetchEmpty(i)
  \/ \E i \in 1..Len(fetches) : FetchAppend(i)
  \/ \E i \in 1..Len(fetches) : FetchAdvance(i)
  \/ FillDraft(FALSE)
  \/ SubmitStart
  \/ InsertOk
  \/ SubmitSucceeds
  \/ \E id \in Ids, h \in BOOLEAN : SetHidden(id, h)

SpecModeration == Init /\ [][NextModeration]_vars

\* The gallery page with its star buttons, while other browsers vote too.
NextVote ==
  \/ Mount
  \/ \E i \in 1..Len(fetches) : QueryOk(i)
  \/ \E i \in 1..Len(fetches) : FetchEmpty(i)
  \/ \E i \in 1..Len(fetches) : FetchAppend(i)
  \/ \E i \in 1..Len(fetches) : FetchAdvance(i)
  \/ \E id \in Ids : HandleRate(id)
  \/ \E i \in 1..Len(rates) : RateApplied(i)
  \/ \E i \in 1..Len(rates) : RateSucceeds(i)
  \/ \E id \in Ids : OtherLoads(id)
  \/ OtherRates
  \/ OtherSubmits

SpecVote == Init /\ [][NextVote]_vars

\* One browser whose handleRate calls are made one after another, each after
\* the one before has resolved.
NextIdem ==
  \/ Mount
  \/ ObserverFires
  \/ \E i \in 1..Len(fetches) : QueryOk(i)
  \/ \E i \in 1..Len(fetches) : FetchEmpty(i)
  \/ \E i \in 1..Len(fetches) : FetchAppend(i)
  \/ \E i \in 1..Len(fetches) : FetchAdvance(i)
  \/ \E id \in Ids : RateInTurn(id)
  \/ \E i \in 1..Len(rates) : RateApplied(i)
  \/ \E i \in 1..Len(rates) : RateRefused(i)
  \/ \E i \in 1..Len(rates) : RateSucceeds(i)
  \/ \E i \in 1..Len(rates) : RateFails(i)

SpecIdem == Init /\ [][NextIdem]_vars

\* The form and handleSubmit, field by field.
NextForm ==
  \/ Mount
  \/ \E i \in 1..Len(fetches) : QueryOk(i)
  \/ \E i \in 1..Len(fetches) : FetchEmpty(i)
  \/ \E i \in 1..Len(fetches) : FetchAppend(i)
  \/ \E i \in 1..Len(fetches) : FetchAdvance(i)
  \/ \E b \in BOOLEAN : SetShowForm(b)
  \/ \E name \in DOMAIN EmptyForm, b \in BOOLEAN : HandleInputChange(name, b)
  \/ \E b \in BOOLEAN : SetFile(b)
  \/ SubmitStart
  \/ UploadOk
  \/ UploadFails
  \/ InsertOk
  \/ InsertFails
  \/ SubmitFails
  \/ SubmitSucceeds

SpecForm == Init /\ [][NextForm]_vars

\* The gallery page with the notifications of its observer told apart: the
\* one observe() queues and the ones scrolling causes.
NextRetry ==
  \/ Mount
  \/ \E isIntersecting \in BOOLEAN : ObserverNotifies(isIntersecting)
  \/ ObserverScrolled
  \/ \E i \in 1..Len(fetches) : QueryOk(i)
  \/ \E i \in 1..Len(fetches) : QueryFails(i)
  \/ \E i \in 1..Len(fetches) : FetchEmpty(i)
  \/ \E i \in 1..Len(fetches) : FetchAppend(i)
  \/ \E i \in 1..Len(fetches) : FetchAdvance(i)
  \/ \E i \in 1..Len(fetches) : FetchFails(i)
  \/ \E withFile \in BOOLEAN : FillDraft(withFile)
  \/ SubmitStart
  \/ UploadOk
  \/ InsertOk
  \/ SubmitSucceeds

SpecRetry == Init /\ [][NextRetry]_vars

\* The admin page on its own.
NextAdmin ==
  \/ AdminFetchImages
  \/ \E id \in Ids : HandleToggleHidden(id)
  \/ \E i \in 1..Len(toggles) : ToggleApplied(i)
  \/ \E i \in 1..Len(toggles) : ToggleRefused(i)
  \/ \E i \in 1..Len(toggles) : ToggleResolves(i)

SpecAdmin == Init /\ [][NextAdmin]_vars

\* ---------------------------------------------------------------- paging claims
Visible == {id \in Ids : ~db[id].hidden}

NoDuplicates == \A i, j \in 1..Len(images) : images[i].id = images[j].id => i = j

Descending == \A i \in 1..(Len(images) - 1) : images[i].created_at >= images[i + 1].created_at

\* No visible entry newer than the oldest loaded one is missing.
NoGap ==
  images # <<>> =>
    \A id \in Visible : db[id].created_at > images[Len(images)].created_at => id \in FeedIds

Quiet == mounted /\ fetches = <<>>

\* C1: after n fetchImages calls made one after another on an unchanged table
\* the feed is the first min(5n, total) visible entries, newest first, with no
\* entry twice and none missing.
C1_FeedIsPrefix ==
  Quiet =>
    /\ Len(images) = Min(PageSize * nCalls, Cardinality(Visible))
    /\ FeedIds \subseteq Visible
    /\ NoDuplicates
    /\ Descending
    /\ NoGap

\* The same statement for tables whose visible rows all differ in created_at.
VisibleTies ==
  {id \in Visible : \E o \in Visible : o # id /\ db[o].created_at = db[id].created_at}

C1_FeedIsPrefixNoTies == VisibleTies = {} => C1_FeedIsPrefix

SevenVisible == Cardinality(Visible) = 7 /\ VisibleTies = {}

\* A step that takes the answer of a page query with zero entries.
TakesEmptyPage ==
  \E i \in 1..Len(fetches) :
    /\ fetches[i].phase = "ok"
    /\ fetches[i].data = <<>>
    /\ fetches' = RemoveAt(fetches, i)

C10_Example ==
  (SevenVisible /\ Quiet) =>
    /\ nCalls = 1 => Len(images) = 5 /\ hasMore
    /\ nCalls = 2 => Len(images) = 7 /\ hasMore
    /\ nCalls >= 3 => Len(images) = 7 /\ ~hasMore

\* C10: hasMore turns false exactly when a page query returns zero entries (a
\* short page leaves it true); with 7 visible entries of distinct created_at
\* the calls load 5, then 2 with hasMore still true, then 0 with hasMore turning
\* false, and a call made once hasMore is false sends no query.
C10_ExhaustedOnEmptyPage ==
  /\ []C10_Example
  /\ [][(hasMore /\ ~hasMore') <=> (hasMore /\ TakesEmptyPage)]_vars
  /\ [][(~hasMore /\ nCalls' # nCalls) => fetches' = fetches]_vars

C10_Witness ==
  SevenVisible /\ Quiet /\ nCalls = 4 /\ ~hasMore /\ Len(images) = 7

\* ---------------------------------------------------------------- feed claims
\* C2: at most one page query is outstanding at any time in one tab: a
\* fetchImages call made while an earlier one has not resolved sends nothing.
C2_OneQueryOutstanding == Len(fetches) <= 1

\* The entry of the last successful handleSubmit is the newest visible row.
NewestOnTop ==
  /\ newest # 0
  /\ ~db[newest].hidden
  /\ \A id \in Ids \ {newest} : db[id].created_at < db[newest].created_at

\* C3: once a successful handleSubmit has returned and no page query is
\* outstanding or has failed, the feed is non-empty and starts with the new
\* entry, whatever the feed was when the draft was submitted.
C3_NewEntryFirst ==
  (submit.pc = "idle" /\ fetches = <<>> /\ error = "none" /\ NewestOnTop) =>
    (images # <<>> /\ images[1].id = newest)

\* ---------------------------------------------------------------- moderation claims
\* C9: a page loaded by a fetchImages call made since the cursor was last
\* reset holds no entry that has been hidden ever since that reset.
C9_HiddenNeverLoaded ==
  \A i \in 1..Len(fetches) :
    fetches[i].fresh =>
      \A k \in 1..Len(fetches[i].data) : fetches[i].data[k].id \notin hiddenAtReset

\* A page has been loaded after a reset while an entry stays hidden.
C9_Witness ==
  /\ hiddenAtReset # {}
  /\ \E i \in 1..Len(fetches) :
       fetches[i].fresh /\ fetches[i].phase = "ok" /\ fetches[i].data # <<>>

\* ---------------------------------------------------------------- voting claims
\* C4: in one browser, as long as no two handleRate calls for the same entry
\* overlap, the backend applies at most one counter update per entry.
C4_OneUpdatePerEntry == \A id \in Ids : id \notin overlapped => sent[id] <= 1

\* C5: an entry marked voted in userVotes and in localStorage stays marked.
C5_LedgerMonotonic ==
  [][userVotes \subseteq userVotes' /\ localVotes \subseteq localVotes']_vars

\* C6: handleRate calls for an entry made one after another send one counter
\* update that succeeds, and once they have resolved the entry's stars and
\* num_votes have grown by exactly that one vote, in the feed and in the backend.
C6_VoteOnce ==
  \A id \in Ids :
    /\ sent[id] <= 1
    /\ rates = <<>> =>
         /\ db[id].stars = sent[id]
         /\ db[id].num_votes = sent[id]
         /\ id \in userVotes <=> sent[id] = 1
         /\ \A i \in 1..Len(images) :
              images[i].id = id =>
                images[i].stars = sent[id] /\ images[i].num_votes = sent[id]

\* The first call succeeded and the second call has been made.
C6_Witness ==
  \E id \in Ids :
    /\ rateCalls[id] = 2
    /\ sent[id] = 1
    /\ error = "none"
    /\ rates = <<>>
    /\ \E i \in 1..Len(images) : images[i].id = id /\ images[i].stars = 1

\* C7: stars equals num_votes for every entry, in the table, in the feed and
\* in every page on its way to the feed.
C7_StarsEqualVotes ==
  /\ \A id \in Ids : db[id].stars = db[id].num_votes
  /\ \A i \in 1..Len(images) : images[i].stars = images[i].num_votes
  /\ \A i \in 1..Len(fetches) : \A k \in 1..Len(fetches[i].data) :
       fetches[i].data[k].stars = fetches[i].data[k].num_votes

\* This browser and another one have both voted for an entry of the feed.
C7_Witness ==
  \E i \in 1..Len(images) :
    /\ images[i].stars >= 1
    /\ sent[images[i].id] >= 1
    /\ db[images[i].id].stars = 2

\* ---------------------------------------------------------------- form claims
\* C8: handleSubmit with both a file and a video link, or with neither, sets
\* the validation error and sends nothing.
C8_OneAssetOrRejected ==
  [][(SubmitStart /\ (file <=> formData.youtubeLink)) =>
       (error' = "validation" /\ submit'.pc = "idle")]_vars

\* ---------------------------------------------------------------- exhaustion
\* The ids of a feed, in order.
FeedSeq(imgs) == [i \in 1..Len(imgs) |-> imgs[i].id]

\* C11: once hasMore is false, every step other than the reset of a successful
\* handleSubmit leaves hasMore false, the feed and lastFetchedAt as they are,
\* and sends no page query.
C11_ExhaustedStays ==
  [][(~hasMore /\ ~SubmitSucceeds) =>
       /\ ~hasMore'
       /\ FeedSeq(images') = FeedSeq(images)
       /\ lastFetchedAt' = lastFetchedAt
       /\ Len(fetches') <= Len(fetches)]_vars

\* ---------------------------------------------------------------- cursor and feed
\* C12: in every rendered state lastFetchedAt is null when the feed is empty
\* and otherwise the created_at of the last feed element.
C12_CursorMatchesFeed ==
  lastFetchedAt = (IF images = <<>> THEN 0 ELSE images[Len(images)].created_at)

\* ---------------------------------------------------------------- failed queries
\* A step in which a fetchImages call takes the error of its page query.
TakesQueryError ==
  \E i \in 1..Len(fetches) : fetches[i].phase = "err" /\ fetches' = RemoveAt(fetches, i)

\* C13: the fetchImages call whose page query failed sets the error message,
\* leaves the feed, lastFetchedAt and hasMore as they are and loading false.
C13_FailedQueryKeepsCursor ==
  [][TakesQueryError =>
       /\ error' = "fetch"
       /\ images' = images
       /\ lastFetchedAt' = lastFetchedAt
       /\ hasMore' = hasMore
       /\ ~loading']_vars

\* After a failed page query a later fetchImages call has sent the query again.
C13_Witness ==
  /\ error = "fetch"
  /\ hasMore
  /\ \E i \in 1..Len(fetches) : fetches[i].phase = "sent" /\ fetches[i].cursor = lastFetchedAt

\* C14: once a page query has failed, a new page query is sent only by a
\* submission or by a notification that scrolling causes, not by the
\* notification that re-attaching the observer queues.
C14_NoRetryOnItsOwn ==
  [][(error = "fetch" /\ Len(fetches') > Len(fetches)) =>
       (SubmitSucceeds \/ (observer.observing /\ ~observer.initial))]_vars

\* ---------------------------------------------------------------- failed votes
\* A step in which a handleRate call takes the error of its counter update.
TakesRateError ==
  \E i \in 1..Len(rates) : rates[i].phase = "err" /\ rates' = RemoveAt(rates, i)

\* C15: the handleRate call whose counter update failed sets the error message
\* and leaves the feed, userVotes and the localStorage ledger as they are.
C15_FailedVoteKeepsLedger ==
  [][TakesRateError =>
       /\ error' = "rate"
       /\ images' = images
       /\ userVotes' = userVotes
       /\ localVotes' = localVotes]_vars

\* After a failed update a later handleRate call for the entry has sent it again.
C15_Witness ==
  /\ error = "rate"
  /\ \E i \in 1..Len(rates) :
       /\ rates[i].phase = "sent"
       /\ rateCalls[rates[i].id] = 2
       /\ sent[rates[i].id] = 0

\* ---------------------------------------------------------------- failed submissions
\* A step in which handleSubmit takes the error of its upload or of its insert.
TakesSubmitError == submit.pc \in {"upload", "failed"} /\ submit'.pc = "idle"

\* C16: when the upload or the insert of handleSubmit fails the error is set,
\* the feed, lastFetchedAt and hasMore are unchanged, the draft is kept and the
\* form stays open; a failed upload is followed by no insert.
C16_FailedSubmitKeepsDraft ==
  /\ [][TakesSubmitError =>
          /\ error' = "submit"
          /\ images' = images
          /\ lastFetchedAt' = lastFetchedAt
          /\ hasMore' = hasMore
          /\ formData' = formData
          /\ file' = file
          /\ showForm' = showForm
          /\ db' = db]_vars
  /\ [][(submit.pc = "upload" /\ submit'.pc # "upload") =>
          (submit'.pc = "idle" <=> error' = "submit")]_vars

\* A submission has failed: the form is open with the draft still in it.
C16_Witness ==
  /\ error = "submit"
  /\ submit.pc = "idle"
  /\ showForm
  /\ ~Rejected(formData, file)
  /\ ~loadingSubmit

\* ---------------------------------------------------------------- validation
\* One of title, description, artist and artistName is empty.
TextMissing ==
  ~formData.title \/ ~formData.description \/ ~formData.artist \/ ~formData.artistName

\* C17: handleSubmit with an empty title, description, artist or artistName
\* sets the validation error, sends nothing and leaves loadingSubmit false,
\* whatever file or video link the draft holds.
C17_TextFieldsRequired ==
  [][(SubmitStart /\ TextMissing) =>
       /\ error' = "validation"
       /\ submit'.pc = "idle"
       /\ ~loadingSubmit'
       /\ db' = db
       /\ fetches' = fetches]_vars

\* A draft with a file, a link and a missing title has been rejected.
C17_Witness ==
  /\ error = "validation"
  /\ submit.pc = "idle"
  /\ ~loadingSubmit
  /\ file
  /\ formData.youtubeLink
  /\ ~formData.title
  /\ formData.description /\ formData.artist /\ formData.artistName

\* ---------------------------------------------------------------- admin claims
\* A step in which the backend applies the update of a handleToggleHidden call.
TakesToggle(i) == toggles[i].phase = "sent" /\ toggles'[i].phase = "ok"

\* C18: the update of handleToggleHidden changes the hidden flag of its entry
\* and nothing else in the table, and when the update fails the list of the
\* admin page is unchanged.
C18_ToggleOnlyHidden ==
  /\ [][\A i \in 1..Len(toggles) :
          (Len(toggles') = Len(toggles) /\ TakesToggle(i)) =>
            /\ Len(db') = Len(db)
            /\ \A id \in Ids :
                 /\ db'[id].stars = db[id].stars
                 /\ db'[id].num_votes = db[id].num_votes
                 /\ db'[id].created_at = db[id].created_at
                 /\ id # toggles[i].id => db'[id].hidden = db[id].hidden]_vars
  /\ [][\A i \in 1..Len(toggles) :
          (toggles[i].phase = "err" /\ toggles' = RemoveAt(toggles, i)) =>
            (adminImages' = adminImages /\ adminError')]_vars

\* An update has failed, and a later one has hidden one entry of two.
C18_Witness ==
  /\ adminError
  /\ Len(db) >= 2
  /\ \E i \in 1..Len(toggles) :
       /\ toggles[i].phase = "ok"
       /\ db[toggles[i].id].hidden
       /\ \E id \in Ids : ~db[id].hidden

\* ---------------------------------------------------------------- the observer
\* C19: the one observer of the page, observer.current, watches nothing or the
\* last rendered entry: whenever the last entry changes the observer that
\* watched the one before has been disconnected.
C19_ObserverOnLastEntry ==
  observer.observing => (images # <<>> /\ observer.node = LastNode(images))

\* After a submission the feed has been loaded again and the observer watches
\* its last entry.
C19_Witness ==
  /\ observer.observing
  /\ newest # 0
  /\ Len(images) >= 2
  /\ observer.node = LastNode(images)

\* ---------------------------------------------------------------- stale answers
\* A step in which the page of a query sent before the last reset is appended
\* to the feed, or its last created_at becomes the cursor.
TakesStalePage ==
  \E i \in 1..Len(fetches) :
    /\ ~fetches[i].fresh
    /\ fetches[i].data # <<>>
    /\ \/ /\ fetches[i].phase = "ok"
          /\ Len(fetches') = Len(fetches)
          /\ fetches'[i].phase = "flushed"
       \/ /\ fetches[i].phase = "flushed"
          /\ fetches' = RemoveAt(fetches, i)

\* C20: after handleSubmit has reset the feed and the cursor, no page and no
\* timestamp of a query that was sent before the reset gets into them.
C20_NoStalePage == [][~TakesStalePage]_vars

\* C21: in the admin view, once every handleToggleHidden call made has
\* resolved successfully, the hidden flag the list shows for each entry is the
\* flag the table holds for it.
C21_ListMatchesTable ==
  (toggles = <<>> /\ ~adminError) =>
    \A id \in DOMAIN adminImages : adminImages[id] = db[id].hidden
====
